---- MODULE Spec2Model ----
(***************************************************************************)
(* A model of the chat relay of edwardnguyen225/my-chatbot.                *)
(*                                                                         *)
(*   Spec        the buffered endpoint, POST /chat (README.md, Step 3):    *)
(*               the rate-limit middleware, the Joi validation, the API    *)
(*               key check, the upstream call and the mapping of its       *)
(*               outcome to a response.                                    *)
(*   StreamSpec  the streaming endpoint, POST /chat-stream (README.md,     *)
(*               Real-Time Streaming Responses): the upstream byte stream  *)
(*               arrives in chunks, each chunk is split into lines and     *)
(*               every "data: " line is relayed to the client.             *)
(*   LimiterSpec the rate limiter of POST /chat with the clock.            *)
(*   StreamLiveSpec, ChatLiveSpec  the two endpoints with the fairness     *)
(*               that the Node event loop and the axios timeout give.      *)
(*   UISpec      the chat window of the frontend (ChatWindow.tsx) and its  *)
(*               store (chatStore.ts): typing, sending with the button or  *)
(*               the Enter key, and the settling of the requests.          *)
(***************************************************************************)
EXTENDS Integers, Sequences, FiniteSets, TLC

VARIABLES
    \* ---- POST /chat ----
    apiKey,          \* process.env.OPENAI_API_KEY is set
    hits,            \* limiter: identity -> requests counted in the window
    pc,              \* call -> "idle" | "handler" | "awaiting" | "done"
    ident,           \* call -> the client identity (req.ip)
    body,            \* call -> req.body
    resp,            \* call -> the response sent, or NoResp
    upReq,           \* call -> the messages posted upstream, or NoReq
    upCalls,         \* number of upstream requests issued by /chat
    upResult,        \* call -> what the awaited axios.post ended with
    rateInfo,        \* call -> req.rateLimit set by the limiter, and the time of the call
    windowStart,     \* limiter: identity -> start of its window, or NoWindow
    now,             \* the clock, in half windows
    \* ---- POST /chat-stream ----
    sPc,             \* "idle" | "opening" | "streaming" | "caught"
    sBody,           \* req.body of the streaming call
    sUpReq,          \* the messages posted upstream by the streaming call
    upState,         \* upstream stream: "none" | "open" | "ended" | "errored"
    upRecords,       \* the records the provider sends on this stream
    upPos,           \* number of wire tokens already delivered in chunks
    resOut,          \* events written with res.write before res.end
    resEnded,        \* res.end() has been called
    lateWrites,      \* events passed to res.write after res.end
    clientConnected, \* the client still holds the connection
    \* ---- ChatWindow and the chat store of the frontend ----
    messages,        \* store: the messages of the conversation
    input,           \* ChatWindow: the text of the input field
    isTyping,        \* ChatWindow: the typing indicator is shown
    sent,            \* the requests ChatWindow has posted to /chat
    nextId,          \* the ids crypto.randomUUID has handed out so far
    userName,        \* store: the name of the user
    storage,         \* localStorage: the item "chat-storage", or NoStorage
    \* ---- the streaming ChatWindow ----
    currentMessage,  \* the text received so far on the stream
    isStreaming,     \* a streaming request is under way
    captured,        \* currentMessage as the running send function sees it
    transport        \* how the running request reads the stream

chatVars == <<apiKey, hits, pc, ident, body, resp, upReq, upCalls, upResult,
              rateInfo, windowStart, now>>
streamVars == <<sPc, sBody, sUpReq, upState, upRecords, upPos, resOut,
                resEnded, lateWrites, clientConnected>>
uiVars == <<messages, input, isTyping, sent, nextId, userName, storage>>
streamUiVars == <<currentMessage, isStreaming, captured, transport>>
vars == <<chatVars, streamVars, uiVars, streamUiVars>>

----------------------------------------------------------------------------
(* Bounds of the model.                                                    *)

MaxCalls == 2        \* concurrent POST /chat calls
MaxRecords == 2      \* records the provider sends before the end marker
MaxTicks == 2        \* half windows the clock advances
MaxSends == 2        \* requests the chat window posts
MaxIds == 3          \* messages added to the store directly

(* Program constants.                                                      *)

MaxMessageLength == 1000
MaxHistoryLength == 50
MinMessageLength == 1
RateLimitMax == 100
WindowMs == 15 * 60 * 1000

----------------------------------------------------------------------------
(* Values.  A string is modelled by its shape: `ws` whitespace characters  *)
(* followed by `txt` other characters; that is all the code ever looks at  *)
(* (length, emptiness, trimming).                                          *)

(* A value that may be undefined carries `def`.                            *)

Str(w, t) == [def |-> TRUE, ws |-> w, txt |-> t]
UndefinedStr == [def |-> FALSE, ws |-> 0, txt |-> 0]
StrLen(s) == s.ws + s.txt
Trim(s) == Str(0, s.txt)

Hist(turns) == [def |-> TRUE, turns |-> turns]
UndefinedHist == [def |-> FALSE, turns |-> <<>>]

NoBody == [message |-> UndefinedStr, history |-> UndefinedHist]
NoResp == [status |-> 0, error |-> "", reply |-> ""]
NoReq == <<>>

Turn(r, c) == [role |-> r, content |-> c]
\* "You are a helpful chatbot."
SystemTurn == Turn("system", Str(0, 26))
\* a well-formed history of n turns, all different, roles alternating
Pad(n) == [i \in 1..n |-> Turn(IF i % 2 = 1 THEN "assistant" ELSE "user", Str(0, i))]

Messages ==
    { UndefinedStr, Str(0, 0), Str(1, 0), Str(0, 1),
      Str(0, MaxMessageLength), Str(0, MaxMessageLength + 1) }

Histories ==
    { UndefinedHist, Hist(<<>>),
      Hist(Pad(MaxHistoryLength)), Hist(Pad(MaxHistoryLength + 1)),
      Hist(<<Turn("bot", Str(0, 1))>>),
      Hist(<<Turn("user", Str(0, 0))>>),
      Hist(<<Turn("user", UndefinedStr)>>),
      Hist(Pad(2) \o <<Turn("system", Str(0, 1))>>) }

\* Request bodies: every message with an empty history, every history with
\* a one-character message, and the two extremes together.
Bodies ==
    { [message |-> m, history |-> Hist(<<>>)] : m \in Messages } \cup
    { [message |-> Str(0, 1), history |-> h] : h \in Histories } \cup
    { [message |-> Str(0, MaxMessageLength), history |-> Hist(Pad(MaxHistoryLength))],
      [message |-> Str(0, MaxMessageLength + 1),
       history |-> Hist(Pad(MaxHistoryLength + 1))] }

----------------------------------------------------------------------------
(* POST /chat-stream                                                       *)

FragTexts == {"f1", "f2"}

\* What the provider sends: records, each one event of the wire format.
FragRec(f) == [kind |-> "frag", content |-> f]
NoContentRec == [kind |-> "nocontent", content |-> ""]
MalformedRec == [kind |-> "malformed", content |-> ""]
DoneRec == [kind |-> "done", content |-> ""]
DataRecords == {FragRec(f) : f \in FragTexts} \cup {NoContentRec, MalformedRec}

\* The bytes of a record, as tokens: "data: " is the prefix the relay tests
\* for, "NL" is a newline, a JSON payload is "{" content "}", and the end
\* marker [DONE] is two tokens so that a chunk boundary can fall inside it.
WireOf(r) ==
    CASE r.kind = "frag"      -> <<"data: ", "{", r.content, "}", "NL", "NL">>
      [] r.kind = "nocontent" -> <<"data: ", "{", "}", "NL", "NL">>
      [] r.kind = "malformed" -> <<"data: ", "{", "NL", "NL">>
      [] r.kind = "done"      -> <<"data: ", "[DO", "NE]", "NL", "NL">>

RECURSIVE Wire(_)
Wire(recs) == IF recs = <<>> THEN <<>> ELSE WireOf(Head(recs)) \o Wire(Tail(recs))

\* The fragments of a record sequence, in order, up to the end marker.
RECURSIVE Fragments(_)
Fragments(recs) ==
    IF recs = <<>> \/ Head(recs).kind = "done" THEN <<>>
    ELSE IF Head(recs).kind = "frag"
         THEN <<Head(recs).content>> \o Fragments(Tail(recs))
         ELSE Fragments(Tail(recs))

\* Events the relay writes to the client.
ContentEv(f) == [type |-> "content", val |-> f]
DoneEv == [type |-> "done", val |-> "[DONE]"]
ErrorEv(m) == [type |-> "error", val |-> m]

\* chunk.toString().split('\n')
RECURSIVE SplitLines(_, _)
SplitLines(toks, cur) ==
    IF toks = <<>> THEN <<cur>>
    ELSE IF Head(toks) = "NL" THEN <<cur>> \o SplitLines(Tail(toks), <<>>)
         ELSE SplitLines(Tail(toks), Append(cur, Head(toks)))

\* JSON.parse(data) followed by parsed.choices?.[0]?.delta?.content:
\* "error" when the text is not JSON, "" when there is no content.
ParseContent(data) ==
    IF Len(data) = 3 /\ data[1] = "{" /\ data[3] = "}" /\ data[2] \in FragTexts
    THEN data[2]
    ELSE IF data = <<"{", "}">> THEN "" ELSE "error"

\* res.write(e) on a response in state st
ResWrite(st, e) ==
    IF st.ended THEN [st EXCEPT !.late = Append(@, e)]
    ELSE [st EXCEPT !.out = Append(@, e)]

\* res.end()
ResEnd(st) == [st EXCEPT !.ended = TRUE]

\* The body of the loop over the lines of one chunk; `returned` models the
\* return out of the handler at the end marker.
HandleLine(st, line) ==
    IF st.returned THEN st
    ELSE IF Len(line) >= 1 /\ line[1] = "data: "
    THEN LET data == Tail(line) IN
         IF data = <<"[DO", "NE]">>
         THEN [ResEnd(ResWrite(st, DoneEv)) EXCEPT !.returned = TRUE]
         ELSE LET content == ParseContent(data) IN
              IF content # "error" /\ content # ""
              THEN ResWrite(st, ContentEv(content))
              ELSE st
    ELSE st

RECURSIVE HandleLines(_, _)
HandleLines(st, lines) ==
    IF lines = <<>> THEN st
    ELSE HandleLines(HandleLine(st, Head(lines)), Tail(lines))

\* response.data.on('data', chunk => ...)
HandleChunk(st, chunk) ==
    HandleLines([st EXCEPT !.returned = FALSE], SplitLines(chunk, <<>>))

ResState == [out |-> resOut, ended |-> resEnded, late |-> lateWrites, returned |-> FALSE]

SetRes(st) ==
    /\ resOut' = st.out
    /\ resEnded' = st.ended
    /\ lateWrites' = st.late

\* faulty variant: the history is left out of the upstream request
UpstreamMessages_NoHistory(b) == <<SystemTurn, Turn("user", b.message)>>

\* messages: system turn, then the history, then the message as user turn
UpstreamMessages(b) ==
    <<SystemTurn>> \o (IF b.history.def THEN b.history.turns ELSE <<>>)
                   \o <<Turn("user", b.message)>>

StreamBodies ==
    { [message |-> Str(0, 1), history |-> UndefinedHist],
      [message |-> Str(0, 0), history |-> Hist(<<>>)],
      [message |-> Str(0, 1), history |-> Hist(<<Turn("bot", Str(0, 1))>>)] }

\* The handler up to its await: the body is read without validation, the
\* SSE headers are written and the upstream request is issued.
StreamStart(b) ==
    /\ sPc = "idle"
    /\ sBody' = b
    /\ sUpReq' = UpstreamMessages(b)
    /\ sPc' = "opening"
    /\ UNCHANGED <<upState, upRecords, upPos, resOut, resEnded, lateWrites,
                   clientConnected>>
    /\ UNCHANGED <<chatVars, uiVars, streamUiVars>>

\* axios.post resolves with the response stream; the handlers are attached.
\* Without an API key the Authorization header is "Bearer undefined" and the
\* provider answers 401, which makes axios.post reject instead.
StreamOpen(recs) ==
    /\ sPc = "opening"
    /\ apiKey
    /\ sPc' = "streaming"
    /\ upState' = "open"
    /\ upRecords' = recs
    /\ upPos' = 0
    /\ UNCHANGED <<sBody, sUpReq, resOut, resEnded, lateWrites, clientConnected>>
    /\ UNCHANGED <<chatVars, uiVars, streamUiVars>>

\* axios.post rejects (network failure, non-2xx status): the catch block.
StreamOpenFail ==
    /\ sPc = "opening"
    /\ sPc' = "caught"
    /\ SetRes(ResEnd(ResWrite(ResState, ErrorEv("Request failed"))))
    /\ UNCHANGED <<sBody, sUpReq, upState, upRecords, upPos, clientConnected>>
    /\ UNCHANGED <<chatVars, uiVars, streamUiVars>>

\* The next n tokens of the wire arrive as one chunk.
StreamData(n) ==
    /\ sPc = "streaming"
    /\ upState = "open"
    /\ upPos + n <= Len(Wire(upRecords))
    /\ upPos' = upPos + n
    /\ SetRes(HandleChunk(ResState, SubSeq(Wire(upRecords), upPos + 1, upPos + n)))
    /\ UNCHANGED <<sPc, sBody, sUpReq, upState, upRecords, clientConnected>>
    /\ UNCHANGED <<chatVars, uiVars, streamUiVars>>

\* faulty variant: the error handler writes the error event and leaves the
\* response open
StreamError_NoEnd ==
    /\ sPc = "streaming"
    /\ upState = "open"
    /\ upState' = "errored"
    /\ SetRes(ResWrite(ResState, ErrorEv("Stream error")))
    /\ UNCHANGED <<sPc, sBody, sUpReq, upRecords, upPos, clientConnected>>
    /\ UNCHANGED <<chatVars, uiVars, streamUiVars>>

\* response.data.on('error', ...): the connection to the provider fails.
StreamError ==
    /\ sPc = "streaming"
    /\ upState = "open"
    /\ upState' = "errored"
    /\ SetRes(ResEnd(ResWrite(ResState, ErrorEv("Stream error"))))
    /\ UNCHANGED <<sPc, sBody, sUpReq, upRecords, upPos, clientConnected>>
    /\ UNCHANGED <<chatVars, uiVars, streamUiVars>>

\* The provider closes the stream after its last byte ('end'): no handler
\* is registered for it, so the response is left as it is.
StreamUpstreamEnd ==
    /\ sPc = "streaming"
    /\ upState = "open"
    /\ upPos = Len(Wire(upRecords))
    /\ upState' = "ended"
    /\ UNCHANGED <<sPc, sBody, sUpReq, upRecords, upPos, resOut, resEnded,
                   lateWrites, clientConnected>>
    /\ UNCHANGED <<chatVars, uiVars, streamUiVars>>

\* The client goes away; the handler registers nothing for it.
ClientDisconnect ==
    /\ sPc # "idle"
    /\ clientConnected
    /\ clientConnected' = FALSE
    /\ UNCHANGED <<sPc, sBody, sUpReq, upState, upRecords, upPos, resOut,
                   resEnded, lateWrites>>
    /\ UNCHANGED <<chatVars, uiVars, streamUiVars>>

\* The record sequences of the provider: at most MaxRecords data records,
\* then the end marker unless the provider closes without one.
RECURSIVE SeqsUpTo(_, _)
SeqsUpTo(S, n) ==
    IF n = 0 THEN {<<>>}
    ELSE LET shorter == SeqsUpTo(S, n - 1) IN
         shorter \cup {Append(s, x) : s \in {t \in shorter : Len(t) = n - 1}, x \in S}

UpstreamStreams ==
    LET data == SeqsUpTo(DataRecords, MaxRecords) IN
    data \cup {Append(s, DoneRec) : s \in data}

StreamNext ==
    \/ \E b \in StreamBodies : StreamStart(b)
    \/ \E recs \in UpstreamStreams : StreamOpen(recs)
    \/ StreamOpenFail
    \/ \E n \in 1..Len(Wire(upRecords)) : StreamData(n)
    \/ StreamError
    \/ StreamUpstreamEnd
    \/ ClientDisconnect

----------------------------------------------------------------------------
(* POST /chat                                                              *)

Calls == 1..MaxCalls
Identities == {"ip1", "ip2"}

TooManyRequests == "Too many requests from this IP, please try again later."

Response(st, err, rep) == [status |-> st, error |-> err, reply |-> rep]

\* Joi.string(): a string, and not the empty one
JoiString(v) == v.def /\ StrLen(v) > 0

\* faulty variant: the empty string is allowed and no minimum is set
MessageError_NoMin(m) ==
    IF ~m.def THEN "\"message\" is required"
    ELSE IF StrLen(m) > MaxMessageLength THEN "\"message\" is too long"
    ELSE ""

\* faulty variant: the maximum is off by one
MessageError_OffByOne(m) ==
    IF ~m.def THEN "\"message\" is required"
    ELSE IF ~JoiString(m) THEN "\"message\" is not allowed to be empty"
    ELSE IF StrLen(m) < MinMessageLength THEN "\"message\" is too short"
    ELSE IF StrLen(m) > MaxMessageLength + 1 THEN "\"message\" is too long"
    ELSE ""

\* message: Joi.string().min(1).max(1000).required()
MessageError(m) ==
    IF ~m.def THEN "\"message\" is required"
    ELSE IF ~JoiString(m) THEN "\"message\" is not allowed to be empty"
    ELSE IF StrLen(m) < MinMessageLength THEN "\"message\" is too short"
    ELSE IF StrLen(m) > MaxMessageLength THEN "\"message\" is too long"
    ELSE ""

\* one item of history: Joi.object({ role: Joi.string().valid('user',
\* 'assistant').required(), content: Joi.string().required() })
TurnError(t) ==
    IF t.role \notin {"user", "assistant"} THEN "\"role\" must be one of [user, assistant]"
    ELSE IF ~t.content.def THEN "\"content\" is required"
    ELSE IF ~JoiString(t.content) THEN "\"content\" is not allowed to be empty"
    ELSE ""

\* faulty variant: the items are checked, the length is not
HistoryError_NoMax(h) ==
    IF ~h.def THEN ""
    ELSE LET bad == {i \in 1..Len(h.turns) : TurnError(h.turns[i]) # ""} IN
         IF bad # {}
         THEN TurnError(h.turns[CHOOSE i \in bad : \A j \in bad : i <= j])
         ELSE ""

\* history: Joi.array().items(...).max(50).optional(); the items are
\* checked in order, then the length
HistoryError(h) ==
    IF ~h.def THEN ""
    ELSE LET bad == {i \in 1..Len(h.turns) : TurnError(h.turns[i]) # ""} IN
         IF bad # {}
         THEN TurnError(h.turns[CHOOSE i \in bad : \A j \in bad : i <= j])
         ELSE IF Len(h.turns) > MaxHistoryLength
              THEN "\"history\" must contain at most 50 items"
              ELSE ""

\* messageSchema.validate(req.body): the first error in key order, and the
\* value, which is the body itself (no rule of the schema converts)
Validate(b) ==
    LET me == MessageError(b.message)
        he == HistoryError(b.history)
    IN [error |-> IF me # "" THEN me ELSE he, value |-> b]

\* The clock ticks in half windows.
TickMs == WindowMs \div 2
NoWindow == -1
NoRateInfo == [used |-> 0, window |-> NoWindow, at |-> NoWindow]

\* faulty variant: a window is taken to be over after half its duration
WindowOver_HalfWindow(id, t) ==
    \/ windowStart[id] = NoWindow
    \/ (t - windowStart[id]) * TickMs >= TickMs

\* the window of the identity is over at time t (or it has none)
WindowOver(id, t) ==
    \/ windowStart[id] = NoWindow
    \/ (t - windowStart[id]) * TickMs >= WindowMs

\* faulty variant: the count is never reset
CountHit_NoReset(id) == hits[id] + 1

\* faulty variant: a request that arrives while another request of the
\* identity is in flight overwrites the count with the one it read before
CountHit_LostUpdate(id) ==
    IF WindowOver(id, now) THEN 1
    ELSE IF \E c \in DOMAIN pc : ident[c] = id /\ pc[c] \in {"handler", "awaiting"}
    THEN hits[id]
    ELSE hits[id] + 1

\* The count of the identity after one more request at the current time: 1
\* in a new window, one more than before in the current one.
CountHit(id) == IF WindowOver(id, now) THEN 1 ELSE hits[id] + 1

\* faulty variant: the limiter keeps one count and one window for all
\* identities
Arrive_SharedState(c, id, b) ==
    /\ pc[c] = "idle"
    /\ \A d \in DOMAIN pc : d < c => pc[d] # "idle"
    /\ ident' = [ident EXCEPT ![c] = id]
    /\ body' = [body EXCEPT ![c] = b]
    /\ hits' = [j \in DOMAIN hits |-> CountHit(id)]
    /\ windowStart' = [j \in DOMAIN windowStart |->
                          IF WindowOver(id, now) THEN now ELSE windowStart[id]]
    /\ rateInfo' = [rateInfo EXCEPT ![c] = [used |-> hits'[id], window |-> windowStart'[id],
                                            at |-> now]]
    /\ IF hits'[id] > RateLimitMax
       THEN /\ resp' = [resp EXCEPT ![c] = Response(429, TooManyRequests, "")]
            /\ pc' = [pc EXCEPT ![c] = "done"]
       ELSE /\ resp' = resp
            /\ pc' = [pc EXCEPT ![c] = "handler"]
    /\ UNCHANGED <<apiKey, upReq, upCalls, upResult, now>>
    /\ UNCHANGED <<streamVars, uiVars, streamUiVars>>

\* The limiter middleware mounted on /chat, then the request goes on to the
\* route: the hit of the identity is counted, and a count above max is
\* answered 429 without running the handler.  The calls are numbered in the
\* order of their arrival.
Arrive(c, id, b) ==
    /\ pc[c] = "idle"
    /\ \A d \in DOMAIN pc : d < c => pc[d] # "idle"
    /\ ident' = [ident EXCEPT ![c] = id]
    /\ body' = [body EXCEPT ![c] = b]
    /\ hits' = [hits EXCEPT ![id] = CountHit(id)]
    /\ windowStart' = [windowStart EXCEPT ![id] = IF WindowOver(id, now) THEN now ELSE @]
    /\ rateInfo' = [rateInfo EXCEPT ![c] = [used |-> hits'[id], window |-> windowStart'[id],
                                            at |-> now]]
    /\ IF hits'[id] > RateLimitMax
       THEN /\ resp' = [resp EXCEPT ![c] = Response(429, TooManyRequests, "")]
            /\ pc' = [pc EXCEPT ![c] = "done"]
       ELSE /\ resp' = resp
            /\ pc' = [pc EXCEPT ![c] = "handler"]
    /\ UNCHANGED <<apiKey, upReq, upCalls, upResult, now>>
    /\ UNCHANGED <<streamVars, uiVars, streamUiVars>>

\* Half a window of time passes.
Tick ==
    /\ now < MaxTicks
    /\ now' = now + 1
    /\ UNCHANGED <<apiKey, hits, pc, ident, body, resp, upReq, upCalls, upResult,
                   rateInfo, windowStart>>
    /\ UNCHANGED <<streamVars, uiVars, streamUiVars>>

\* faulty variant: the upstream request is issued before the body is validated
Handle_PostBeforeValidate(c) ==
    /\ pc[c] = "handler"
    /\ LET v == Validate(body[c]) IN
       IF ~apiKey
       THEN /\ resp' = [resp EXCEPT ![c] = Response(500, "API key not configured", "")]
            /\ pc' = [pc EXCEPT ![c] = "done"]
            /\ UNCHANGED <<upReq, upCalls>>
       ELSE /\ upReq' = [upReq EXCEPT ![c] = <<SystemTurn, Turn("user", body[c].message)>>]
            /\ upCalls' = upCalls + 1
            /\ IF v.error # ""
               THEN /\ resp' = [resp EXCEPT ![c] = Response(400, "Invalid input", "")]
                    /\ pc' = [pc EXCEPT ![c] = "done"]
               ELSE /\ pc' = [pc EXCEPT ![c] = "awaiting"]
                    /\ resp' = resp
    /\ UNCHANGED <<apiKey, hits, ident, body, upResult, rateInfo, windowStart, now>>
    /\ UNCHANGED <<streamVars, uiVars, streamUiVars>>

\* faulty variant: the handler does not check that the API key is configured
Handle_NoKeyCheck(c) ==
    /\ pc[c] = "handler"
    /\ LET v == Validate(body[c]) IN
       IF v.error # ""
       THEN /\ resp' = [resp EXCEPT ![c] = Response(400, "Invalid input", "")]
            /\ pc' = [pc EXCEPT ![c] = "done"]
            /\ UNCHANGED <<upReq, upCalls>>
       ELSE /\ upReq' = [upReq EXCEPT ![c] = UpstreamMessages(v.value)]
            /\ upCalls' = upCalls + 1
            /\ pc' = [pc EXCEPT ![c] = "awaiting"]
            /\ resp' = resp
    /\ UNCHANGED <<apiKey, hits, ident, body, upResult, rateInfo, windowStart, now>>
    /\ UNCHANGED <<streamVars, uiVars, streamUiVars>>

\* The route handler up to its await: validation, the API key check, then
\* the upstream request is issued.
Handle(c) ==
    /\ pc[c] = "handler"
    /\ LET v == Validate(body[c]) IN
       IF v.error # ""
       THEN /\ resp' = [resp EXCEPT ![c] = Response(400, "Invalid input", "")]
            /\ pc' = [pc EXCEPT ![c] = "done"]
            /\ UNCHANGED <<upReq, upCalls>>
       ELSE IF ~apiKey
       THEN /\ resp' = [resp EXCEPT ![c] = Response(500, "API key not configured", "")]
            /\ pc' = [pc EXCEPT ![c] = "done"]
            /\ UNCHANGED <<upReq, upCalls>>
       ELSE /\ upReq' = [upReq EXCEPT ![c] = UpstreamMessages(v.value)]
            /\ upCalls' = upCalls + 1
            /\ pc' = [pc EXCEPT ![c] = "awaiting"]
            /\ resp' = resp
    /\ UNCHANGED <<apiKey, hits, ident, body, upResult, rateInfo, windowStart, now>>
    /\ UNCHANGED <<streamVars, uiVars, streamUiVars>>

\* What axios.post ends with: a reply, or an error with its code, the
\* status of the provider's response (0 when there is no response) and the
\* provider's payload or the error message.
Outcome(k, code, st, data) == [kind |-> k, code |-> code, status |-> st, data |-> data]
NoOutcome == Outcome("none", "", 0, "")
\* the request timeout of axios (timeout: 30000) fires
TimeoutOutcome == Outcome("error", "ECONNABORTED", 0, "timeout of 30000ms exceeded")
Outcomes ==
    { Outcome("ok", "", 200, "reply"),
      TimeoutOutcome,
      Outcome("error", "ERR_BAD_REQUEST", 401, "invalid_api_key"),
      Outcome("error", "ERR_BAD_REQUEST", 429, "insufficient_quota"),
      Outcome("error", "ERR_BAD_RESPONSE", 503, "overloaded"),
      Outcome("error", "ECONNRESET", 0, "socket hang up") }

\* res.json({reply}) on success, else the catch block
\* faulty variant: the status of the provider's response is passed on
ResponseFor_StatusPassedOn(o) ==
    IF o.kind = "ok" THEN Response(200, "", o.data)
    ELSE IF o.code = "ECONNABORTED" THEN Response(408, "Request timeout", "")
    ELSE IF o.status # 0 THEN Response(o.status, "Something went wrong", "")
    ELSE Response(500, "Something went wrong", "")

\* faulty variant: the provider's payload is sent to the client
ResponseFor_PayloadEchoed(o) ==
    IF o.kind = "ok" THEN Response(200, "", o.data)
    ELSE IF o.code = "ECONNABORTED" THEN Response(408, "Request timeout", "")
    ELSE IF o.status = 429 THEN Response(429, "Rate limit exceeded", "")
    ELSE Response(500, o.data, "")

ResponseFor(o) ==
    IF o.kind = "ok" THEN Response(200, "", o.data)
    ELSE IF o.code = "ECONNABORTED" THEN Response(408, "Request timeout", "")
    ELSE IF o.status = 429 THEN Response(429, "Rate limit exceeded", "")
    ELSE IF o.status = 401 THEN Response(500, "Authentication failed", "")
    ELSE Response(500, "Something went wrong", "")

\* The awaited upstream call ends and the response is sent.
UpstreamReturn(c, o) ==
    /\ pc[c] = "awaiting"
    /\ upResult' = [upResult EXCEPT ![c] = o]
    /\ resp' = [resp EXCEPT ![c] = ResponseFor(o)]
    /\ pc' = [pc EXCEPT ![c] = "done"]
    /\ UNCHANGED <<apiKey, hits, ident, body, upReq, upCalls, rateInfo, windowStart, now>>
    /\ UNCHANGED <<streamVars, uiVars, streamUiVars>>

\* The requests that arrive: every body from one identity, and a plain
\* request from the other.
PlainBody == [message |-> Str(0, 1), history |-> UndefinedHist]
Requests ==
    { [id |-> "ip1", body |-> b] : b \in Bodies } \cup
    { [id |-> "ip2", body |-> PlainBody] }

ChatNext ==
    \/ \E c \in Calls, r \in Requests : Arrive(c, r.id, r.body)
    \/ \E c \in Calls : Handle(c)
    \/ \E c \in Calls, o \in Outcomes : UpstreamReturn(c, o)

\* The limiter and the clock alone: plain requests from both identities.
LimiterNext ==
    \/ \E c \in Calls, id \in Identities : Arrive(c, id, PlainBody)
    \/ \E c \in Calls : Handle(c)
    \/ \E c \in Calls, o \in Outcomes : UpstreamReturn(c, o)
    \/ Tick

----------------------------------------------------------------------------
(* The chat window of the frontend and its store.  A message carries the   *)
(* shape of its text and, when the text is one the code fixes, that text   *)
(* (without its leading sign).                                             *)

\* The timestamp of a message is a Date object (new Date()) when the message
\* is made; only its type is kept here.
Message(i, s, t, l) ==
    [id |-> i, sender |-> s, text |-> t, lit |-> l, timestamp |-> "Date"]

\* the welcome message of the store; its id "welcome" is 0 here
WelcomeMessage ==
    Message(0, "assistant", Str(0, 38), "Hi there! How can I help you today?")

\* addMessage of the store: the message is appended with a fresh id
AddMessage(ms, i, s, t, l) == Append(ms, Message(i, s, t, l))

\* JSON.stringify of the messages, as the persist middleware stores them: a
\* Date becomes its ISO string; JSON.parse gives that string back.
ToJSON(ms) == [i \in 1..Len(ms) |-> [ms[i] EXCEPT !.timestamp = "string"]]

\* the item the persist middleware writes on every change of the store:
\* partialize keeps messages and userName
NoStorage == [def |-> FALSE, messages |-> <<>>, userName |-> ""]
Persisted(ms, un) == [def |-> TRUE, messages |-> ToJSON(ms), userName |-> un]

\* messages.map((m) => ({role: m.sender, content: m.text}))
HistoryOf(ms) == [i \in 1..Len(ms) |-> Turn(ms[i].sender, ms[i].text)]

\* How a request to /chat ends for axios: a reply, an error with the
\* response of the server, or an error without a response.  An AxiosError
\* has the key `response` only when there is a response; navigator.onLine
\* tells whether the browser is online.
UiResult(k, st, rep, key, on) ==
    [kind |-> k, status |-> st, reply |-> rep, responseKey |-> key, online |-> on]
NoUiResult == UiResult("none", 0, UndefinedStr, FALSE, TRUE)
UiResults ==
    { UiResult("ok", 200, Str(0, 1), FALSE, TRUE) }
    \cup { UiResult("http", st, UndefinedStr, TRUE, TRUE) : st \in {401, 408, 429, 500} }
    \cup { UiResult("network", 0, UndefinedStr, FALSE, on) : on \in BOOLEAN }

\* faulty variant: every failure gets the generic message
ErrorMessage_Generic(r) ==
    [text |-> Str(0, 48), lit |-> "Oops! Something went wrong. Please try again."]

\* the message shown for a failed request (the catch block of sendMessage)
ErrorMessage(r) ==
    IF r.responseKey
    THEN IF r.status = 429
         THEN [text |-> Str(0, 57), lit |-> "Too many requests. Please wait a moment and try again."]
         ELSE IF r.status = 401
         THEN [text |-> Str(0, 51), lit |-> "Authentication error. Please check your API key."]
         ELSE [text |-> Str(0, 48), lit |-> "Oops! Something went wrong. Please try again."]
    ELSE IF ~r.online
    THEN [text |-> Str(0, 53), lit |-> "No internet connection. Please check your network."]
    ELSE [text |-> Str(0, 48), lit |-> "Oops! Something went wrong. Please try again."]

\* the texts the user types
InputTexts ==
    { Str(0, 0), Str(2, 0), Str(2, 1), Str(0, MaxMessageLength + 1) }

\* onChange of the input field; the field is never disabled
SetInput(s) ==
    /\ s # input
    /\ input' = s
    /\ UNCHANGED <<messages, isTyping, sent, nextId, userName, storage>>
    /\ UNCHANGED <<chatVars, streamVars, streamUiVars>>

\* faulty variant: the history is taken from the store after the user
\* message was added
SendMessage_HistoryAfterAdd ==
    IF StrLen(Trim(input)) = 0
    THEN UNCHANGED uiVars
    ELSE /\ Len(sent) < MaxSends
         /\ messages' = AddMessage(messages, nextId, "user", input, "")
         /\ storage' = Persisted(messages', userName)
         /\ userName' = userName
         /\ nextId' = nextId + 1
         /\ input' = Str(0, 0)
         /\ isTyping' = TRUE
         /\ sent' = Append(sent, [body |-> [message |-> input,
                                           history |-> Hist(HistoryOf(messages'))],
                                  state |-> "pending",
                                  result |-> NoUiResult])

\* faulty variant: the input is tested without trimming
SendMessage_NoTrim ==
    IF StrLen(input) = 0
    THEN UNCHANGED uiVars
    ELSE /\ Len(sent) < MaxSends
         /\ messages' = AddMessage(messages, nextId, "user", input, "")
         /\ storage' = Persisted(messages', userName)
         /\ userName' = userName
         /\ nextId' = nextId + 1
         /\ input' = Str(0, 0)
         /\ isTyping' = TRUE
         /\ sent' = Append(sent, [body |-> [message |-> input,
                                           history |-> Hist(HistoryOf(messages))],
                                  state |-> "pending",
                                  result |-> NoUiResult])

\* sendMessage up to its await: nothing for a blank input, else the user
\* message is added to the store, the input is cleared, the typing indicator
\* is switched on and the request is posted with the messages of the last
\* render as history.
SendMessage ==
    IF StrLen(Trim(input)) = 0
    THEN UNCHANGED uiVars
    ELSE /\ Len(sent) < MaxSends
         /\ messages' = AddMessage(messages, nextId, "user", input, "")
         /\ storage' = Persisted(messages', userName)
         /\ userName' = userName
         /\ nextId' = nextId + 1
         /\ input' = Str(0, 0)
         /\ isTyping' = TRUE
         /\ sent' = Append(sent, [body |-> [message |-> input,
                                           history |-> Hist(HistoryOf(messages))],
                                  state |-> "pending",
                                  result |-> NoUiResult])

\* a click on the Send button, which is disabled while the indicator is shown
ClickSend ==
    /\ ~isTyping
    /\ SendMessage
    /\ UNCHANGED <<chatVars, streamVars, streamUiVars>>

\* handleKeyDown for the Enter key without Shift
PressEnter ==
    /\ SendMessage
    /\ UNCHANGED <<chatVars, streamVars, streamUiVars>>

\* faulty variant: a failed request adds no message and leaves the typing
\* indicator on
Settle_SilentFailure(i, r) ==
    /\ i \in 1..Len(sent)
    /\ sent[i].state = "pending"
    /\ IF r.kind = "ok"
       THEN /\ messages' = AddMessage(messages, nextId, "assistant", r.reply, "")
            /\ storage' = Persisted(messages', userName)
            /\ nextId' = nextId + 1
            /\ isTyping' = FALSE
       ELSE UNCHANGED <<messages, storage, nextId, isTyping>>
    /\ userName' = userName
    /\ sent' = [sent EXCEPT ![i] = [@ EXCEPT !.state = "settled", !.result = r]]
    /\ UNCHANGED input
    /\ UNCHANGED <<chatVars, streamVars, streamUiVars>>

\* sendMessage after its await: the reply, or the message for the failure,
\* is added to the store as an assistant message, and the typing indicator
\* is switched off.
Settle(i, r) ==
    /\ i \in 1..Len(sent)
    /\ sent[i].state = "pending"
    /\ LET m == IF r.kind = "ok" THEN [text |-> r.reply, lit |-> ""]
                ELSE ErrorMessage(r)
       IN messages' = AddMessage(messages, nextId, "assistant", m.text, m.lit)
    /\ storage' = Persisted(messages', userName)
    /\ userName' = userName
    /\ nextId' = nextId + 1
    /\ isTyping' = FALSE
    /\ sent' = [sent EXCEPT ![i] = [@ EXCEPT !.state = "settled", !.result = r]]
    /\ UNCHANGED input
    /\ UNCHANGED <<chatVars, streamVars, streamUiVars>>

\* faulty variant: addMessage puts the new message in front of the others
StoreAdd_Prepend(s, t) ==
    /\ nextId <= MaxIds
    /\ messages' = <<Message(nextId, s, t, "")>> \o messages
    /\ nextId' = nextId + 1
    /\ storage' = Persisted(messages', userName)
    /\ UNCHANGED <<input, isTyping, sent, userName>>
    /\ UNCHANGED <<chatVars, streamVars, streamUiVars>>

\* addMessage of the store, called with a sender and a text
StoreAdd(s, t) ==
    /\ nextId <= MaxIds
    /\ messages' = AddMessage(messages, nextId, s, t, "")
    /\ nextId' = nextId + 1
    /\ storage' = Persisted(messages', userName)
    /\ UNCHANGED <<input, isTyping, sent, userName>>
    /\ UNCHANGED <<chatVars, streamVars, streamUiVars>>

\* setUserName of the store
SetUserName(n) ==
    /\ n # userName
    /\ userName' = n
    /\ storage' = Persisted(messages, userName')
    /\ UNCHANGED <<messages, input, isTyping, sent, nextId>>
    /\ UNCHANGED <<chatVars, streamVars, streamUiVars>>

\* faulty variant: clearChat leaves no message at all
ClearChat_Empty ==
    /\ messages' = <<>>
    /\ userName' = ""
    /\ storage' = Persisted(messages', userName')
    /\ UNCHANGED <<input, isTyping, sent, nextId>>
    /\ UNCHANGED <<chatVars, streamVars, streamUiVars>>

\* clearChat of the store
ClearChat ==
    /\ messages' = <<WelcomeMessage>>
    /\ userName' = ""
    /\ storage' = Persisted(messages', userName')
    /\ UNCHANGED <<input, isTyping, sent, nextId>>
    /\ UNCHANGED <<chatVars, streamVars, streamUiVars>>

\* The page is loaded again: the store starts from its initial state and
\* the persist middleware merges the stored item into it; the component
\* state starts afresh and the requests of the old page are abandoned.
Reload ==
    /\ messages' = IF storage.def THEN storage.messages ELSE <<WelcomeMessage>>
    /\ userName' = IF storage.def THEN storage.userName ELSE ""
    /\ input' = Str(0, 0)
    /\ isTyping' = FALSE
    /\ sent' = [i \in 1..Len(sent) |->
                   IF sent[i].state = "pending"
                   THEN [sent[i] EXCEPT !.state = "abandoned"] ELSE sent[i]]
    /\ currentMessage' = ""
    /\ isStreaming' = FALSE
    /\ captured' = ""
    /\ transport' = "none"
    /\ UNCHANGED <<nextId, storage>>
    /\ UNCHANGED <<chatVars, streamVars>>

Senders == {"user", "assistant"}
UserNames == {"", "Ann"}

\* The store used directly, page loads, and the chat window as far as
\* typing and sending go.
StoreNext ==
    \/ \E s \in Senders : StoreAdd(s, Str(0, 1))
    \/ \E n \in UserNames : SetUserName(n)
    \/ ClearChat
    \/ Reload
    \/ \E s \in InputTexts : SetInput(s)
    \/ ClickSend

UINext ==
    \/ \E s \in InputTexts : SetInput(s)
    \/ ClickSend
    \/ PressEnter
    \/ \E i \in 1..MaxSends, r \in UiResults : Settle(i, r)

\* ---- the streaming ChatWindow ----
\* The component keeps the text received so far in currentMessage and the
\* flag isStreaming; the input field and the Send button are disabled while
\* isStreaming is set.  A send function runs in the render in which it was
\* called: the currentMessage it reads later, in its listeners and after its
\* awaits, is the value of that render (captured), while
\* setCurrentMessage(prev => ...) works on the current value.

Transports == {"EventSource", "fetch"}

\* the request the component is reading the stream of
Reading(via) ==
    /\ transport = via
    /\ sent # <<>>
    /\ sent[Len(sent)].state \in {"pending", "marker"}

\* the last request gets the state st
Finish(st) == [sent EXCEPT ![Len(sent)] = [@ EXCEPT !.state = st]]

\* sendMessage and sendMessageWithFetch up to the request: nothing happens
\* for blank input or while streaming; otherwise the user message is added,
\* the input and the in-progress text are cleared and isStreaming is set.
StreamSend(via) ==
    /\ StrLen(Trim(input)) # 0
    /\ ~isStreaming
    /\ Len(sent) < MaxSends
    /\ messages' = AddMessage(messages, nextId, "user", input, "")
    /\ storage' = Persisted(messages', userName)
    /\ nextId' = nextId + 1
    /\ input' = Str(0, 0)
    /\ isStreaming' = TRUE
    /\ currentMessage' = ""
    /\ captured' = currentMessage
    /\ transport' = via
    /\ sent' = Append(sent, [body |-> [message |-> input,
                                      history |-> Hist(HistoryOf(messages))],
                             state |-> "pending",
                             result |-> NoUiResult])
    /\ UNCHANGED <<isTyping, userName>>
    /\ UNCHANGED <<chatVars, streamVars>>

\* a record with content arrives: onmessage with data.content, or a data
\* line with parsed.content
StreamContent(via, f) ==
    /\ Reading(via)
    /\ sent[Len(sent)].state = "pending"
    /\ Len(currentMessage) < MaxRecords * Len(f)
    /\ currentMessage' = currentMessage \o f
    /\ UNCHANGED <<isStreaming, captured, transport>>
    /\ UNCHANGED <<chatVars, streamVars, uiVars>>

\* the end of the stream as the send function handles it: the text of its
\* render, if not empty, is added as an assistant message, the in-progress
\* text is cleared and isStreaming is reset
StreamDone ==
    /\ IF captured # ""
       THEN /\ messages' = AddMessage(messages, nextId, "assistant",
                                      Str(0, Len(captured)), captured)
            /\ storage' = Persisted(messages', userName)
            /\ nextId' = nextId + 1
       ELSE UNCHANGED <<messages, storage, nextId>>
    /\ currentMessage' = ""
    /\ isStreaming' = FALSE
    /\ sent' = Finish("settled")
    /\ UNCHANGED <<input, isTyping, userName, captured, transport>>
    /\ UNCHANGED <<chatVars, streamVars>>

\* the `data: [DONE]` line read by sendMessageWithFetch
FetchDoneMarker ==
    /\ Reading("fetch")
    /\ StreamDone

\* the listener for events named `done` of the EventSource
EsDoneEvent ==
    /\ Reading("EventSource")
    /\ StreamDone

\* the message `[DONE]` in onmessage of the EventSource: JSON.parse throws,
\* and the handler does nothing
EsDoneMarker ==
    /\ Reading("EventSource")
    /\ sent[Len(sent)].state = "pending"
    /\ sent' = Finish("marker")
    /\ UNCHANGED <<messages, input, isTyping, nextId, userName, storage>>
    /\ UNCHANGED <<chatVars, streamVars, streamUiVars>>

\* the component adds the assistant message m and stops streaming; the
\* in-progress text is left as it is
StreamStop(m, st) ==
    /\ messages' = AddMessage(messages, nextId, "assistant", m.text, m.lit)
    /\ storage' = Persisted(messages', userName)
    /\ nextId' = nextId + 1
    /\ isStreaming' = FALSE
    /\ sent' = Finish(st)
    /\ UNCHANGED <<input, isTyping, userName, currentMessage, captured, transport>>
    /\ UNCHANGED <<chatVars, streamVars>>

\* onmessage of the EventSource with data.error
EsErrorEvent ==
    /\ Reading("EventSource")
    /\ sent[Len(sent)].state = "pending"
    /\ StreamStop([text |-> Str(0, 19), lit |-> "Error: Stream error"], "failed")

\* onerror of the EventSource: the connection failed or was closed
EsConnectionError ==
    /\ Reading("EventSource")
    /\ StreamStop([text |-> Str(0, 41),
                   lit |-> "Connection error. Please try again."], "failed")

\* the catch block of sendMessageWithFetch: fetch or a read failed
FetchFail ==
    /\ Reading("fetch")
    /\ StreamStop([text |-> Str(0, 35),
                   lit |-> "Error: Unable to get response"], "failed")

\* the body read by sendMessageWithFetch ends without a `[DONE]` line: the
\* loop is left and the function returns
FetchEnd ==
    /\ Reading("fetch")
    /\ sent' = Finish("ended")
    /\ UNCHANGED <<messages, input, isTyping, nextId, userName, storage>>
    /\ UNCHANGED <<chatVars, streamVars, streamUiVars>>

\* onChange of the input field, which is disabled while streaming
StreamSetInput(s) ==
    /\ ~isStreaming
    /\ SetInput(s)

StreamUINext ==
    \/ \E s \in InputTexts : StreamSetInput(s)
    \/ \E via \in Transports : StreamSend(via)
    \/ \E via \in Transports, f \in FragTexts : StreamContent(via, f)
    \/ FetchDoneMarker
    \/ EsDoneEvent
    \/ EsDoneMarker
    \/ EsErrorEvent
    \/ EsConnectionError
    \/ FetchFail
    \/ FetchEnd

\* The window with a blank and a non-blank text typed, and with a reply, a
\* failure with a response and a failure without one.
SomeUiResults ==
    { r \in UiResults : r.kind = "ok" \/ r.status = 429 \/ (r.kind = "network" /\ ~r.online) }

UILiveNext ==
    \/ \E s \in {Str(2, 0), Str(2, 1)} : SetInput(s)
    \/ ClickSend
    \/ PressEnter
    \/ \E i \in 1..MaxSends, r \in SomeUiResults : Settle(i, r)

\* The server may already have counted requests in the current window.
InitialHits == {0, RateLimitMax - 1}

\* ... or have counted all the requests the window allows.
LimiterInitialHits == InitialHits \cup {RateLimitMax}

\* The state after start-up and h requests of each identity.
InitWith(H) ==
    /\ apiKey \in BOOLEAN
    /\ \E h \in H :
          /\ hits = [id \in Identities |-> h]
          /\ windowStart = [id \in Identities |-> IF h = 0 THEN NoWindow ELSE 0]
    /\ now = 0
    /\ upResult = [c \in 1..MaxCalls |-> NoOutcome]
    /\ rateInfo = [c \in 1..MaxCalls |-> NoRateInfo]
    /\ pc = [c \in 1..MaxCalls |-> "idle"]
    /\ ident = [c \in 1..MaxCalls |-> "none"]
    /\ body = [c \in 1..MaxCalls |-> NoBody]
    /\ resp = [c \in 1..MaxCalls |-> NoResp]
    /\ upReq = [c \in 1..MaxCalls |-> NoReq]
    /\ upCalls = 0
    /\ sPc = "idle"
    /\ sBody = NoBody
    /\ sUpReq = NoReq
    /\ upState = "none"
    /\ upRecords = <<>>
    /\ upPos = 0
    /\ resOut = <<>>
    /\ resEnded = FALSE
    /\ lateWrites = <<>>
    /\ clientConnected = TRUE
    /\ messages = <<WelcomeMessage>>
    /\ input = Str(0, 0)
    /\ isTyping = FALSE
    /\ sent = <<>>
    /\ nextId = 1
    /\ userName = ""
    /\ storage = NoStorage
    /\ currentMessage = ""
    /\ isStreaming = FALSE
    /\ captured = ""
    /\ transport = "none"

Init == InitWith(InitialHits)

LimiterInit == InitWith(LimiterInitialHits)

Spec == Init /\ [][ChatNext]_vars

LimiterSpec == LimiterInit /\ [][LimiterNext]_vars

StreamSpec == Init /\ [][StreamNext]_vars

UISpec == Init /\ [][UINext]_vars

StoreSpec == Init /\ [][StoreNext]_vars

\* The promise of axios.post settles: the response arrives or the request
\* fails.
UILiveSpec ==
    /\ InitWith({0}) /\ [][UILiveNext]_vars
    /\ \A i \in 1..MaxSends : WF_vars(\E r \in SomeUiResults : Settle(i, r))

\* Once a request has been received, its handler runs. The provider's steps
\* carry no fairness: it may stay silent for ever.
StreamLiveSpec ==
    Init /\ [][StreamNext]_vars /\ WF_vars(\E b \in StreamBodies : StreamStart(b))

\* On /chat the handler runs, and the timeout of axios.post fires when the
\* provider has not answered.
ChatLiveSpec ==
    /\ Init /\ [][ChatNext]_vars
    /\ \A c \in Calls : WF_vars(Handle(c)) /\ WF_vars(UpstreamReturn(c, TimeoutOutcome))

----------------------------------------------------------------------------
(* Properties of POST /chat-stream                                         *)

RECURSIVE ContentOf(_)
ContentOf(evs) ==
    IF evs = <<>> THEN <<>>
    ELSE IF Head(evs).type = "content"
         THEN <<Head(evs).val>> \o ContentOf(Tail(evs))
         ELSE ContentOf(Tail(evs))

RECURSIVE CountType(_, _)
CountType(evs, t) ==
    IF evs = <<>> THEN 0
    ELSE (IF Head(evs).type = t THEN 1 ELSE 0) + CountType(Tail(evs), t)

Terminals(evs) == CountType(evs, "done") + CountType(evs, "error")
IsTerminal(e) == e.type \in {"done", "error"}

\* every byte of the upstream stream has been handed to the relay
AllDelivered == upState \in {"open", "ended"} /\ upPos = Len(Wire(upRecords))

\* the upstream sequence is over: it could not be opened, it failed, or the
\* provider closed it after its last byte
UpstreamOver == sPc = "caught" \/ upState \in {"ended", "errored"}

\* C1: once the whole upstream stream has been delivered, the partial-text
\* events the client was sent are exactly the upstream fragments, in order,
\* none lost, none duplicated.
C1_FragmentsRelayedExactly ==
    AllDelivered => ContentOf(resOut) = Fragments(upRecords)

\* C2: when the upstream sequence is over, the client stream holds exactly
\* one terminal event, it is the last event written, the stream is closed
\* and nothing was written after the close.
C2_ExactlyOneTerminalLast ==
    UpstreamOver =>
        /\ resEnded
        /\ Terminals(resOut) = 1
        /\ IsTerminal(resOut[Len(resOut)])
        /\ lateWrites = <<>>

\* C3: a stream with a single malformed record, otherwise healthy and closed
\* by the end marker, delivers every fragment in order and ends with its
\* normal terminal event.
C3_MalformedRecordSkipped ==
    ( /\ upState = "ended"
      /\ Len(SelectSeq(upRecords, LAMBDA r : r.kind = "malformed")) = 1
      /\ upRecords[Len(upRecords)].kind = "done" )
    => /\ ContentOf(resOut) = Fragments(upRecords)
       /\ resEnded
       /\ Terminals(resOut) = 1
       /\ resOut[Len(resOut)] = DoneEv

C5_DisconnectCancelsUpstream ==
    [][ (sPc = "streaming" /\ ~clientConnected) =>
          /\ upPos' = upPos
          /\ resOut' = resOut
          /\ lateWrites' = lateWrites ]_vars

----------------------------------------------------------------------------
(* Properties of POST /chat                                                *)

\* the limiter answered the call; the handler never ran
Limited(c) == pc[c] = "done" /\ resp[c].error = TooManyRequests
\* the route handler has run for the call
HandlerRan(c) == pc[c] \in {"awaiting", "done"} /\ ~Limited(c)

HistoryTurns(b) == IF b.history.def THEN b.history.turns ELSE <<>>

\* a request within the documented bounds
WellFormedTurn(t) ==
    t.role \in {"user", "assistant"} /\ t.content.def /\ StrLen(t.content) >= 1
WellFormedRequest(b) ==
    /\ b.message.def
    /\ StrLen(b.message) >= 1
    /\ StrLen(b.message) <= 1000
    /\ Len(HistoryTurns(b)) <= 50
    /\ \A i \in 1..Len(HistoryTurns(b)) : WellFormedTurn(HistoryTurns(b)[i])

\* the history turns in their order, then the message as the last, user turn
CarriesRequest(req, b) ==
    LET h == HistoryTurns(b) IN
    /\ Len(req) = Len(h) + 2
    /\ \A i \in 1..Len(h) : req[i + 1] = h[i]
    /\ req[Len(req)] = Turn("user", b.message)

\* C6: a request within the bounds passes validation, the validated value
\* is the request itself, and what is posted upstream for it carries the
\* history turns in their order followed by the message as the final user
\* turn (it is posted once the handler has run with an API key configured).
C6_ValidRequestForwardedUnchanged ==
    \A c \in Calls :
        (pc[c] # "idle" /\ WellFormedRequest(body[c])) =>
            /\ Validate(body[c]) = [error |-> "", value |-> body[c]]
            /\ resp[c].status # 400
            /\ (HandlerRan(c) /\ apiKey) => upReq[c] # NoReq
            /\ upReq[c] # NoReq => CarriesRequest(upReq[c], body[c])

\* the longest message with the longest history has been posted upstream
C6_Witness ==
    \E c \in Calls :
        /\ pc[c] = "awaiting"
        /\ StrLen(body[c].message) = 1000
        /\ Len(HistoryTurns(body[c])) = 50
        /\ Len(upReq[c]) = 52

EmptyMessage(b) == b.message.def /\ StrLen(b.message) = 0

LongMessage(b) == b.message.def /\ StrLen(b.message) > 1000

C9_TrimmedLengthDecides ==
    \A c \in Calls :
        (HandlerRan(c) /\ resp[c].status # 400) =>
            /\ StrLen(Trim(body[c].message)) >= 1
            /\ StrLen(Trim(body[c].message)) <= 1000

BadHistory(b) ==
    /\ b.history.def
    /\ \/ Len(b.history.turns) > 50
       \/ \E i \in 1..Len(b.history.turns) : ~WellFormedTurn(b.history.turns[i])

C10_NoHistoryForwarded ==
    \E c \in Calls :
        pc[c] = "awaiting" /\ ~body[c].history.def /\ Len(upReq[c]) = 2

\* ---------------------------------------------------------------------------
\* Rate limiter
\* ---------------------------------------------------------------------------

\* call c has passed the limiter
Counted(c) == rateInfo[c].used > 0

\* call c has been let through by the limiter
Admitted(c) == Counted(c) /\ ~Limited(c)

\* call c arrives in this step
Arriving(c) == pc[c] = "idle" /\ pc'[c] # "idle"

\* C11: within one window the requests of an identity are counted one by
\* one; the requests counted 1..100 are admitted and the one counted 101 is
\* answered 429 "Too many requests" and never causes an upstream call; a
\* request that arrives once the window of its identity is over is counted 1
\* in a new window and admitted.
C11_CapacityThenRejectThenReset ==
    /\ [](\A c \in Calls :
            /\ Counted(c) => (Limited(c) <=> rateInfo[c].used > RateLimitMax)
            /\ Limited(c) => /\ resp[c] = Response(429, TooManyRequests, "")
                             /\ upReq[c] = NoReq)
    /\ [][\A c \in Calls : Arriving(c) =>
            LET id == ident'[c] IN
            IF WindowOver(id, now)
            THEN /\ rateInfo'[c].used = 1
                 /\ hits'[id] = 1
                 /\ pc'[c] = "handler"
            ELSE /\ rateInfo'[c].used = hits[id] + 1
                 /\ hits'[id] = hits[id] + 1
                 /\ pc'[c] = "done" <=> hits[id] >= RateLimitMax
                 /\ upCalls' = upCalls]_vars

\* the 101st request of a window was rejected and, after the window, a
\* request of the same identity was admitted and posted upstream
C11_Witness ==
    \E c, d \in Calls :
        /\ ident[c] = ident[d]
        /\ Limited(c)
        /\ rateInfo[c].used = RateLimitMax + 1
        /\ rateInfo[d].window > rateInfo[c].window
        /\ (rateInfo[d].window - rateInfo[c].window) * TickMs >= WindowMs
        /\ rateInfo[d].used = 1
        /\ upReq[d] # NoReq

\* the 100th request of a window was admitted and the 101st rejected
C11_CapacityWitness ==
    \E c, d \in Calls :
        /\ ident[c] = ident[d]
        /\ rateInfo[c].window = rateInfo[d].window
        /\ rateInfo[c].used = RateLimitMax /\ upReq[c] # NoReq
        /\ rateInfo[d].used = RateLimitMax + 1 /\ Limited(d)

\* the calls of identity id counted in the window that started at s
CallsInWindow(id, s) ==
    { c \in Calls : Counted(c) /\ ident[c] = id /\ rateInfo[c].window = s }

\* call c is being handled
InFlight(c) == pc[c] \in {"handler", "awaiting"}

\* C12: no update of the count is lost, however the calls of an identity
\* interleave: the calls counted in one window hold pairwise different
\* counts, the counts of the calls of the current window are the last ones up
\* to the stored count (which is k after k calls in a fresh window), and an
\* admitted call holds a count of at most 100, so at most 100 calls of a
\* window are admitted.
C12_NoLostUpdate ==
    \A id \in Identities :
        /\ \A c, d \in Calls :
               (c # d /\ Counted(c) /\ Counted(d) /\ ident[c] = id /\ ident[d] = id
                   /\ rateInfo[c].window = rateInfo[d].window)
               => rateInfo[c].used # rateInfo[d].used
        /\ windowStart[id] # NoWindow =>
               LET cur == CallsInWindow(id, windowStart[id])
                   k == Cardinality(cur)
               IN /\ { rateInfo[c].used : c \in cur } = (hits[id] - k + 1)..hits[id]
                  /\ (\E c \in cur : rateInfo[c].used = 1) => hits[id] = k
        /\ \A c \in Calls :
               (Admitted(c) /\ ident[c] = id) => rateInfo[c].used \in 1..RateLimitMax

\* every call slot holds a call of one identity in one fresh window, all of
\* them in flight at once, and the stored count is their number
C12_Witness ==
    \E id \in Identities :
        /\ \A c \in Calls : ident[c] = id /\ InFlight(c)
        /\ Cardinality(CallsInWindow(id, windowStart[id])) = MaxCalls
        /\ hits[id] = MaxCalls

\* ---------------------------------------------------------------------------
\* Order of the steps of a /chat call
\* ---------------------------------------------------------------------------

\* the steps a /chat call takes: the limiter, then the handler (validation,
\* key check, upstream request), then the response
ChatSteps ==
    { <<"idle", "handler">>, <<"idle", "done">>,
      <<"handler", "done">>, <<"handler", "awaiting">>,
      <<"awaiting", "done">> }

C14_StreamGatedLikeChat ==
    sUpReq # NoReq =>
        /\ Validate(sBody).error = ""
        /\ \E id \in Identities :
               windowStart[id] # NoWindow /\ hits[id] \in 1..RateLimitMax

\* ---------------------------------------------------------------------------
\* Responses of /chat
\* ---------------------------------------------------------------------------

\* C15: a finished /chat call has one response, whose status follows from
\* what happened to the call: 429 when the limiter rejected it, 400 when its
\* body failed validation, 200 with the reply when the provider answered, 408
\* when the upstream request timed out, 429 when the provider answered 429,
\* and 500 for a provider's 401, any other status, a network failure or a
\* missing API key; a call that is not finished has no response.
C15_EveryOutcomeOneStatus ==
    \A c \in Calls :
        /\ pc[c] # "done" => resp[c] = NoResp
        /\ pc[c] = "done" =>
            /\ resp[c].status =
                   IF rateInfo[c].used > RateLimitMax THEN 429
                   ELSE IF Validate(body[c]).error # "" THEN 400
                   ELSE IF upResult[c].kind = "ok" THEN 200
                   ELSE IF upResult[c].code = "ECONNABORTED" THEN 408
                   ELSE IF upResult[c].status = 429 THEN 429
                   ELSE 500
            /\ resp[c].status = 200 =>
                   resp[c].reply = upResult[c].data /\ resp[c].error = ""
            /\ resp[c].status # 200 =>
                   resp[c].reply = "" /\ resp[c].error # ""

\* one call was answered 500 after the provider's 401 and another 408 after
\* the timeout
C15_Witness ==
    \E c, d \in Calls :
        /\ pc[c] = "done" /\ upResult[c].status = 401 /\ resp[c].status = 500
        /\ pc[d] = "done" /\ upResult[d] = TimeoutOutcome /\ resp[d].status = 408

\* a request within the bounds of the schema
ValidBody(b) == Validate(b).error = ""

\* C16: without an API key no /chat call ever causes an upstream request,
\* and a call with a valid body that reaches the handler is answered 500
\* "API key not configured".
C16_NoKeyNoUpstreamCall ==
    ~apiKey =>
        /\ upCalls = 0
        /\ \A c \in Calls :
            /\ upReq[c] = NoReq
            /\ pc[c] # "awaiting"
            /\ (pc[c] = "done" /\ Admitted(c) /\ ValidBody(body[c])) =>
                   resp[c] = Response(500, "API key not configured", "")

\* without an API key, a call with a valid message and a history was answered 500
C16_Witness ==
    /\ ~apiKey
    /\ \E c \in Calls :
        /\ pc[c] = "done"
        /\ ValidBody(body[c])
        /\ Len(HistoryTurns(body[c])) > 0
        /\ resp[c].status = 500

\* ---------------------------------------------------------------------------
\* No retry, one outcome
\* ---------------------------------------------------------------------------

\* C17: a streaming call issues its upstream request once, at most one
\* terminal or error event is ever written for it, also counting writes after
\* the close, and once the upstream sequence is over the client stream holds
\* exactly one such event.
C17_OneRequestOneOutcome ==
    /\ sUpReq # NoReq <=> sPc # "idle"
    /\ Terminals(resOut) + Terminals(lateWrites) <= 1
    /\ UpstreamOver => Terminals(resOut) = 1

\* the part of C17 about /chat: one upstream request per call at most, the
\* request and the response of a call never change once set, and a finished
\* call has one response.
C17_ChatOneRequestOneResponse ==
    /\ [](/\ upCalls = Cardinality({ c \in Calls : upReq[c] # NoReq })
          /\ \A c \in Calls : pc[c] = "done" <=> resp[c] # NoResp)
    /\ [][\A c \in Calls :
            /\ upReq[c] # NoReq => upReq'[c] = upReq[c]
            /\ resp[c] # NoResp => resp'[c] = resp[c]
            /\ upResult[c] # NoOutcome => upResult'[c] = upResult[c]]_vars

\* ---------------------------------------------------------------------------
\* Termination
\* ---------------------------------------------------------------------------

\* the streaming call waits for the provider
StreamWaiting == sPc \in {"opening", "streaming"} /\ ~resEnded

\* C18: every call comes to its end whatever the provider does: a /chat
\* call that awaits the provider is eventually answered, and a streaming
\* call that waits for the provider eventually has its client stream closed
\* after a terminal or error event, unless the client has gone away.
C18_EveryCallTerminates ==
    /\ \A c \in Calls : (pc[c] = "awaiting") ~> (pc[c] = "done")
    /\ (StreamWaiting /\ clientConnected)
           ~> ((resEnded /\ Terminals(resOut) = 1) \/ ~clientConnected)

\* the part of C18 about /chat: a call that awaits the provider is
\* eventually answered, and with 408 when the timeout has fired
C18_ChatCallAnswered ==
    /\ \A c \in Calls : (pc[c] = "awaiting") ~> (pc[c] = "done")
    /\ [](\A c \in Calls : upResult[c] = TimeoutOutcome =>
              resp[c] = Response(408, "Request timeout", ""))

\* ---------------------------------------------------------------------------
\* Error bodies
\* ---------------------------------------------------------------------------

\* the error class of a failed upstream request
ErrorClass(o) ==
    IF o.code = "ECONNABORTED" THEN "UpstreamTimeout"
    ELSE IF o.status = 401 THEN "UpstreamAuthFailed"
    ELSE IF o.status = 429 THEN "UpstreamRateLimited"
    ELSE "UpstreamUnavailable"

\* the upstream request of call c has failed
UpstreamFailed(c) == pc[c] = "done" /\ upResult[c].kind = "error"

\* C19: two /chat calls whose upstream requests failed in the same error
\* class got the same status and the same body, whatever the provider's
\* payloads or the error details were, and the body never holds the payload.
C19_ErrorIndependentOfPayload ==
    /\ \A c, d \in Calls :
           (UpstreamFailed(c) /\ UpstreamFailed(d)
               /\ ErrorClass(upResult[c]) = ErrorClass(upResult[d]))
           => resp[c] = resp[d]
    /\ \A c \in Calls : UpstreamFailed(c) => resp[c].error # upResult[c].data

\* two calls failed in the same class with different payloads
C19_Witness ==
    \E c, d \in Calls :
        /\ UpstreamFailed(c) /\ UpstreamFailed(d)
        /\ ErrorClass(upResult[c]) = ErrorClass(upResult[d])
        /\ upResult[c].data # upResult[d].data
        /\ resp[c] = resp[d]

----------------------------------------------------------------------------
(* Properties of the chat window                                           *)

\* the requests of the chat window that are in flight
Pending == { i \in 1..Len(sent) : sent[i].state = "pending" }

\* C20: the chat window never has two requests in flight: while a request
\* is pending, neither the Send button nor the Enter key posts another one.
C20_OneRequestInFlight == Cardinality(Pending) <= 1

\* the input is empty or holds whitespace only
BlankInput == input.txt = 0

\* the user messages of a list
UserMessages(ms) == SelectSeq(ms, LAMBDA m : m.sender = "user")

\* C21: a step that posts a request or adds a user message is a send with an
\* input that is not blank: it appends one user message with the text of the
\* input, posts one request with that text and leaves the input empty; with
\* a blank input the Send button and the Enter key change nothing.
C21_SendEffects ==
    /\ [][(Len(sent') > Len(sent)
            \/ Len(UserMessages(messages')) > Len(UserMessages(messages)))
          => /\ ~BlankInput
             /\ Len(sent') = Len(sent) + 1
             /\ SubSeq(sent', 1, Len(sent)) = sent
             /\ sent'[Len(sent')].body.message = input
             /\ sent'[Len(sent')].state = "pending"
             /\ Len(messages') = Len(messages) + 1
             /\ SubSeq(messages', 1, Len(messages)) = messages
             /\ messages'[Len(messages')].sender = "user"
             /\ messages'[Len(messages')].text = input
             /\ input' = Str(0, 0)]_vars
    /\ [][(BlankInput /\ (ClickSend \/ PressEnter)) => UNCHANGED uiVars]_vars

\* a padded text was sent: the user message and the request hold it as
\* typed, and the input is empty
C21_Witness ==
    /\ Len(sent) = 1
    /\ sent[1].body.message = Str(2, 1)
    /\ sent[1].state = "pending"
    /\ Len(messages) = 2
    /\ messages[2].sender = "user" /\ messages[2].text = Str(2, 1)
    /\ input = Str(0, 0)

\* m is the welcome message (whatever the form of its timestamp)
IsWelcome(m) ==
    /\ m.id = WelcomeMessage.id
    /\ m.sender = WelcomeMessage.sender
    /\ m.text = WelcomeMessage.text
    /\ m.lit = WelcomeMessage.lit

\* C22: the message list of the store is never empty, its first message is
\* the welcome message, and no two of its messages have the same id.
C22_StoreInvariant ==
    /\ Len(messages) >= 1
    /\ IsWelcome(messages[1])
    /\ \A i, j \in 1..Len(messages) : i # j => messages[i].id # messages[j].id

\* messages were added after a clearChat and a name is set
C22_Witness ==
    /\ Len(messages) >= 3
    /\ messages[2].id > 1
    /\ userName = "Ann"

\* C23: a page reload leaves the messages and the user name of the store as
\* they were just before it, and starts the component state afresh: the
\* input is empty and the typing indicator is off.
C23_ReloadRestoresStore ==
    [][Reload => /\ messages' = messages
                 /\ userName' = userName
                 /\ input' = Str(0, 0)
                 /\ ~isTyping']_vars

\* the messages without the form of their timestamps
Untimed(ms) == [i \in 1..Len(ms) |-> [ms[i] EXCEPT !.timestamp = ""]]

\* what does hold at a page reload: the messages are restored up to the
\* form of their timestamps, the user name is restored, and the component
\* state starts afresh
C23_RestoredUpToTimestamps ==
    [][Reload => /\ Untimed(messages') = Untimed(messages)
                 /\ userName' = userName
                 /\ input' = Str(0, 0)
                 /\ ~isTyping']_vars

\* the text the claim gives for a failure
ExpectedErrorText(r) ==
    IF r.status = 429 THEN "Too many requests. Please wait a moment and try again."
    ELSE IF r.status = 401 THEN "Authentication error. Please check your API key."
    ELSE IF r.kind = "network" /\ ~r.online
    THEN "No internet connection. Please check your network."
    ELSE "Oops! Something went wrong. Please try again."

\* request i is settled in this step
Settling(i) == sent[i].state = "pending" /\ sent'[i].state = "settled"

StreamUISpec == Init /\ [][StreamUINext]_vars

\* StreamDone is how both send functions handle the end of the stream.
StreamEnding == FetchDoneMarker \/ EsDoneEvent

\* C25: when the stream ends with the terminal event, the text accumulated
\* from the received fragments is added to the store as exactly one assistant
\* message, the in-progress text is cleared and isStreaming becomes false.
C25_AccumulatedTextStored ==
    [][ StreamEnding =>
          /\ currentMessage # "" =>
                /\ Len(messages') = Len(messages) + 1
                /\ messages'[Len(messages')].sender = "assistant"
                /\ messages'[Len(messages')].lit = currentMessage
          /\ currentMessage' = ""
          /\ ~isStreaming' ]_vars

\* what does hold at the end of a stream: the in-progress text is cleared,
\* isStreaming is reset and the text of the sending render, not the text
\* received, decides about the assistant message
C25_CapturedTextStored ==
    [][ StreamEnding =>
          /\ currentMessage' = ""
          /\ ~isStreaming'
          /\ IF captured = ""
             THEN messages' = messages
             ELSE /\ Len(messages') = Len(messages) + 1
                  /\ messages'[Len(messages')].lit = captured ]_vars

\* a stream has ended after fragments arrived and the conversation ends
\* with the user's message
C25_Witness ==
    /\ sent # <<>>
    /\ sent[Len(sent)].state = "settled"
    /\ transport \in Transports
    /\ messages[Len(messages)].sender = "user"

\* ---- ChatWindow and the /chat endpoint together ----
\* The i-th request the window posts is the i-th call the server sees; the
\* window settles it with the response the server sent, or with a network
\* failure.

\* the response as axios hands it to sendMessage: the reply for a 2xx
\* status, an error with a response and its status otherwise
FromResponse(rs) ==
    IF rs.status = 200
    THEN UiResult("ok", 200, Str(0, Len(rs.reply)), FALSE, TRUE)
    ELSE UiResult("http", rs.status, UndefinedStr, TRUE, TRUE)

\* the request posted by the window reaches the server
Deliver(i) ==
    /\ i \in 1..Len(sent)
    /\ i \in Calls
    /\ sent[i].state = "pending"
    /\ Arrive(i, "ip1", sent[i].body)

\* the response of the server reaches the window
Receive(i) ==
    /\ i \in Calls
    /\ pc[i] = "done"
    /\ Settle(i, FromResponse(resp[i]))

\* the request or its response is lost (here: while the browser is offline)
NetworkFail(i, on) ==
    /\ Settle(i, UiResult("network", 0, UndefinedStr, FALSE, on))

\* what the provider does here: it replies, is too slow, rejects the key or
\* refuses for quota
ProviderOutcomes == { o \in Outcomes : o.kind = "ok" \/ o = TimeoutOutcome \/ o.status \in {401, 429} }

\* the texts typed here: one the server accepts and one it finds too long
TypedTexts == { Str(2, 1), Str(0, MaxMessageLength + 1) }

EndToEndNext ==
    \/ \E s \in TypedTexts : SetInput(s)
    \/ ClickSend
    \/ PressEnter
    \/ \E i \in 1..MaxSends : Deliver(i)
    \/ \E c \in Calls : Handle(c)
    \/ \E c \in Calls, o \in ProviderOutcomes : UpstreamReturn(c, o)
    \/ \E i \in 1..MaxSends : Receive(i)
    \/ \E i \in 1..MaxSends : NetworkFail(i, FALSE)

EndToEndSpec == Init /\ [][EndToEndNext]_vars

\* the window is given the server's response to request i in this step
Receiving(i) == i \in Calls /\ pc[i] = "done" /\ Settling(i) /\ sent'[i].result.kind # "network"

\* C26: when the provider rejects the API key (upstream 401), the window
\* shows the authentication-error message.
C26_Upstream401ShownAsAuthError ==
    [][\A i \in 1..Len(sent) :
          (Receiving(i) /\ upResult[i].kind = "error" /\ upResult[i].status = 401) =>
              messages'[Len(messages')].lit = "Authentication error. Please check your API key."]_vars

\* what the window shows for it is the generic message, as the server
\* answers 500
C26_Upstream401ShownAsGeneric ==
    [][\A i \in 1..Len(sent) :
          (Receiving(i) /\ upResult[i].kind = "error" /\ upResult[i].status = 401) =>
              /\ resp[i].status = 500
              /\ messages'[Len(messages')].lit = "Oops! Something went wrong. Please try again."]_vars

\* the provider rejected the key and the window has the server's response
C26_Witness ==
    \E i \in 1..Len(sent) :
        /\ i \in Calls
        /\ upResult[i].status = 401
        /\ sent[i].state = "settled"
        /\ sent[i].result.kind = "http"

\* C27: when the backend answers a chat request with 408, the window shows
\* the request-timeout message.
C27_TimeoutShownAsTimeout ==
    [][\A i \in 1..Len(sent) :
          (Receiving(i) /\ resp[i].status = 408) =>
              messages'[Len(messages')].lit = "Request timeout. Please try again."]_vars

\* what the window shows for a 408 is the generic message
C27_TimeoutShownAsGeneric ==
    [][\A i \in 1..Len(sent) :
          (Receiving(i) /\ resp[i].status = 408) =>
              messages'[Len(messages')].lit = "Oops! Something went wrong. Please try again."]_vars

\* the server answered 408 and the window has the response
C27_Witness ==
    \E i \in 1..Len(sent) :
        /\ i \in Calls
        /\ resp[i].status = 408
        /\ sent[i].state = "settled"
        /\ sent[i].result.status = 408

\* the response after the whole upstream stream arrived as a single chunk
WholeStreamAtOnce ==
    HandleChunk([out |-> <<>>, ended |-> FALSE, late |-> <<>>, returned |-> FALSE],
                Wire(upRecords))

\* C28: decoding does not depend on the chunking: once the whole upstream
\* stream has been delivered, in whatever chunks, the relay has written the
\* events, and has ended the response or not, as it does when the stream
\* arrives as a single chunk.
C28_ChunkingIndependent ==
    AllDelivered =>
        /\ resOut = WholeStreamAtOnce.out
        /\ resEnded = WholeStreamAtOnce.ended

\* the time between a and b is shorter than a window
WithinWindow(a, b) == (b - a) * TickMs < WindowMs

\* C29: at most capacity requests of an identity are admitted per window and
\* at most twice the capacity in any interval no longer than a window.  The
\* admitted calls of a window hold pairwise different counts between 1 and
\* the capacity; a call is counted in a window that has started and is not
\* over when the call arrives; and a new window starts no earlier than a
\* window duration after the start of the one before, so that an interval no
\* longer than a window meets at most two windows of the identity, and two
\* admitted calls less than a window apart lie in the same window or in two
\* windows that follow each other.
C29_CapacityPerWindowTwiceAcross ==
    /\ [](\A c \in Calls : Admitted(c) =>
            /\ rateInfo[c].used \in 1..RateLimitMax
            /\ rateInfo[c].window <= rateInfo[c].at
            /\ WithinWindow(rateInfo[c].window, rateInfo[c].at)
            /\ \A d \in Calls :
                  (d # c /\ Admitted(d) /\ ident[d] = ident[c]
                      /\ rateInfo[d].window = rateInfo[c].window)
                  => rateInfo[d].used # rateInfo[c].used)
    /\ [][\A id \in Identities :
            (windowStart[id] # NoWindow /\ windowStart'[id] # windowStart[id])
            => (windowStart'[id] - windowStart[id]) * TickMs >= WindowMs]_vars
    /\ [](\A c, d \in Calls :
            (Counted(c) /\ Counted(d) /\ ident[c] = ident[d]
                /\ rateInfo[c].window < rateInfo[d].window)
            => (rateInfo[d].window - rateInfo[c].window) * TickMs >= WindowMs)

\* the burst at the boundary: the request that fills one window and the
\* first request of the next window, less than a window apart, are both
\* admitted
C29_Witness ==
    \E c, d \in Calls :
        /\ ident[c] = ident[d]
        /\ Admitted(c) /\ rateInfo[c].used = RateLimitMax
        /\ Admitted(d) /\ rateInfo[d].used = 1
        /\ rateInfo[c].window < rateInfo[d].window
        /\ rateInfo[c].at < rateInfo[d].at
        /\ WithinWindow(rateInfo[c].at, rateInfo[d].at)

\* the rate state of identity id
RateState(id) == [count |-> hits[id], start |-> windowStart[id]]

\* C30: rate state is per identity.  The rate state of an identity changes
\* only in a step in which one of its own requests arrives; and whether the
\* arriving request is admitted, its count and the new rate state of its
\* identity are determined by the time and the rate state of that identity
\* alone.
C30_RateStatePerIdentity ==
    [][ /\ \A id \in Identities :
              (hits'[id] # hits[id] \/ windowStart'[id] # windowStart[id])
              => \E c \in Calls : Arriving(c) /\ ident'[c] = id
        /\ \A c \in Calls : Arriving(c) =>
              LET id == ident'[c]
                  own == RateState(id)
                  fresh == own.start = NoWindow \/ (now - own.start) * TickMs >= WindowMs
                  n == IF fresh THEN 1 ELSE own.count + 1
              IN /\ hits'[id] = n
                 /\ windowStart'[id] = IF fresh THEN now ELSE own.start
                 /\ rateInfo'[c].used = n
                 /\ (pc'[c] = "done") <=> (n > RateLimitMax) ]_vars

\* the two identities are in different windows with different counts: one
\* was rejected in the old window while the other was admitted in a new one
C30_Witness ==
    \E c, d \in Calls :
        /\ ident[c] # ident[d]
        /\ Limited(c)
        /\ Admitted(d)
        /\ rateInfo[d].used = 1
        /\ windowStart[ident[c]] # windowStart[ident[d]]
        /\ hits[ident[c]] # hits[ident[d]]

\* a stream was stopped by an error and the text received before it is
\* still shown
PartialTextShown == ~isStreaming /\ currentMessage # ""

\* the text t is part of the conversation: shown as text in progress or
\* held by a message of the store
InConversation(t, cur, ms) == cur = t \/ \E k \in 1..Len(ms) : ms[k].lit = t

\* C31: partial output delivered before an interruption stays in place: the
\* text the streaming window had accumulated when the error arrived is still
\* part of the conversation after every later step.
C31_PartialTextKept ==
    [][PartialTextShown => InConversation(currentMessage, currentMessage', messages')]_vars

\* the relay's half: events written to the client are never taken back
C31_RelayOutputKept ==
    [][/\ Len(resOut') >= Len(resOut)
       /\ SubSeq(resOut', 1, Len(resOut)) = resOut]_vars

\* the error itself leaves the text received so far in place
C31_ErrorLeavesText ==
    [][(EsErrorEvent \/ EsConnectionError \/ FetchFail) => currentMessage' = currentMessage]_vars

\* a request is posted in this step
Sending == Len(sent') = Len(sent) + 1

\* C32: the history sent with a request is the message list of the store as
\* it was before the current user message was added, turn by turn in order,
\* and the request the server posts upstream is the system turn, that
\* history and the current message as the last turn: the current user
\* message is in it once.
C32_HistoryIsStoreBeforeSend ==
    /\ [][Sending =>
            LET r == sent'[Len(sent')] IN
            /\ r.body.history.def
            /\ Len(r.body.history.turns) = Len(messages)
            /\ \A k \in 1..Len(messages) :
                  r.body.history.turns[k] = Turn(messages[k].sender, messages[k].text)
            /\ Len(messages') = Len(messages) + 1
            /\ SubSeq(messages', 1, Len(messages)) = messages
            /\ messages'[Len(messages')].sender = "user"
            /\ messages'[Len(messages')].text = r.body.message]_vars
    /\ [](\A i \in 1..Len(sent) :
            (i \in Calls /\ upReq[i] # NoReq) =>
                /\ Len(upReq[i]) = Len(sent[i].body.history.turns) + 2
                /\ upReq[i][1] = SystemTurn
                /\ SubSeq(upReq[i], 2, Len(upReq[i]) - 1) = sent[i].body.history.turns
                /\ upReq[i][Len(upReq[i])] = Turn("user", sent[i].body.message))

\* a request sent after a first exchange (welcome, user message, reply) has
\* been posted upstream
C32_Witness ==
    \E i \in 1..Len(sent) :
        /\ i \in Calls
        /\ upReq[i] # NoReq
        /\ Len(sent[i].body.history.turns) >= 3
        /\ sent[i].body.history.turns[3].role = "assistant"

\* C33: every request the window sends satisfies the validation rules of
\* the server: at most 50 turns of history, every turn with role user or
\* assistant and non-empty content, and a message of at most 1000
\* characters.
C33_RequestsValid ==
    \A i \in 1..Len(sent) : Validate(sent[i].body).error = ""

\* what holds of the requests sent: the history passes validation as long
\* as it has at most 50 turns, and the message is not blank
C33_HistoryTurnsValid ==
    \A i \in 1..Len(sent) :
        LET b == sent[i].body IN
        /\ b.history.def
        /\ Len(b.history.turns) <= MaxHistoryLength => HistoryError(b.history) = ""
        /\ \A k \in 1..Len(b.history.turns) :
              /\ b.history.turns[k].role \in {"user", "assistant"}
              /\ JoiString(b.history.turns[k].content)
        /\ StrLen(Trim(b.message)) >= MinMessageLength

\* C34: every send with non-blank input completes.  The step that posts a
\* request appends exactly one message, the user message; the step in which
\* a request resolves or fails appends exactly one message, an assistant
\* message, and leaves the typing indicator off; and every request posted is
\* settled in the end.
C34_SendCompletes ==
    /\ [][Sending =>
            /\ Len(messages') = Len(messages) + 1
            /\ SubSeq(messages', 1, Len(messages)) = messages
            /\ messages'[Len(messages')].sender = "user"]_vars
    /\ [][\A i \in 1..Len(sent) : Settling(i) =>
            /\ Len(messages') = Len(messages) + 1
            /\ SubSeq(messages', 1, Len(messages)) = messages
            /\ messages'[Len(messages')].sender = "assistant"
            /\ ~isTyping']_vars
    /\ \A i \in 1..MaxSends :
          (Len(sent) >= i) ~> (Len(sent) >= i /\ sent[i].state = "settled")

\* two requests were posted, one failed and one was answered, and the
\* conversation holds their two user messages and two assistant messages
C34_Witness ==
    /\ Len(sent) = 2
    /\ sent[1].state = "settled" /\ sent[2].state = "settled"
    /\ \E i, j \in 1..2 : sent[i].result.kind = "ok" /\ sent[j].result.kind # "ok"
    /\ Len(messages) = 5
    /\ ~isTyping

\* C35: every assistant message other than the welcome message directly
\* follows the user message it answers; in particular the message before it
\* is a user message.
C35_ReplyFollowsItsMessage ==
    \A k \in 2..Len(messages) :
        messages[k].sender = "assistant" => messages[k - 1].sender = "user"

\* C36: the typing indicator is on exactly while at least one request is
\* pending.
C36_IndicatorIffPending == isTyping <=> Pending # {}

\* one half holds: the indicator is never on when no request is pending
C36_IndicatorOnlyWhilePending == isTyping => Pending # {}

\* C37: the operations of the store change only their own part of the
\* state.  addMessage appends exactly one message, with the sender and the
\* text it was given, after the messages there were, and leaves them, their
\* order and the user name as they were; setUserName sets the name and
\* leaves the messages as they were; clearChat leaves the welcome message
\* alone and an empty user name, and a clearChat of a cleared store changes
\* nothing.
C37_StoreOperationsFramed ==
    [][ /\ \A s \in Senders :
              StoreAdd(s, Str(0, 1)) =>
                  /\ Len(messages') = Len(messages) + 1
                  /\ SubSeq(messages', 1, Len(messages)) = messages
                  /\ messages'[Len(messages')].sender = s
                  /\ messages'[Len(messages')].text = Str(0, 1)
                  /\ userName' = userName
        /\ \A n \in UserNames :
              SetUserName(n) => (messages' = messages /\ userName' = n)
        /\ ClearChat => /\ messages' = <<WelcomeMessage>>
                        /\ userName' = ""
        /\ (ClearChat /\ messages = <<WelcomeMessage>> /\ userName = "")
              => (messages' = messages /\ userName' = userName) ]_vars

\* messages were added, and the store was cleared since and persisted
C37_Witness ==
    /\ messages = <<WelcomeMessage>>
    /\ userName = ""
    /\ nextId > 2
    /\ storage.def /\ storage.userName = "" /\ Len(storage.messages) = 1

====
